---- MODULE Spec2Model ----
(***************************************************************************)
(* Two independent scripts of the repository:                              *)
(*   - scraper.py: scrape_wow_content(), a sequential fetch-and-filter     *)
(*     loop over three URLs driven through one browser page;               *)
(*   - ios/scripts/fix-test-target.py: main() and add_file_to_project(),   *)
(*     regex-anchored insertion of entries into a project manifest.        *)
(* Each script has its own specification (SpecScraper, SpecPatcher); the   *)
(* variables of the other script stay at their initial value.              *)
(***************************************************************************)
EXTENDS Integers, Sequences, FiniteSets, TLC

(***************************************************************************)
(*                              scraper.py                                 *)
(***************************************************************************)
VARIABLES
    s_pc,           \* the statement scrape_wow_content() is at
    url,            \* position in sources of the loop variable url (0 before the loop)
    dungeons_data,  \* the mapping: visible text -> [url, source]
    dungeon_links,  \* the anchors of the last query
    li,             \* position of the inner loop in dungeon_links[:5]
    launched,       \* the browser was launched
    closed,         \* browser.close() was executed
    visited,        \* the URLs page.goto() was called with, in order
    caught,         \* the URLs whose processing raised into the except branch
    marked,         \* the URLs whose HTML contained a relevance marker
    yielded,        \* the URLs at which an anchor was recorded
    returned        \* the function returned dungeons_data

svars == <<s_pc, url, dungeons_data, dungeon_links, li, launched,
           closed, visited, caught, marked, yielded, returned>>

\* ios/scripts/fix-test-target.py
VARIABLES
    exists,       \* os.path.exists(PROJECT_FILE)
    fileContent,  \* the text of PROJECT_FILE on disk
    disk,         \* the listed source files that exist on disk
    p_pc,         \* the statement main() is at
    content,      \* the local variable content of main()
    fi,           \* position of the loop in test_files
    nextId,       \* the identifiers generate_uuid() has returned so far, plus one
    out,          \* the lines printed by the current run
    wasRead,      \* read_project_file() was called in the current run
    wasWritten,   \* write_project_file() was called in the current run
    runs,         \* the number of runs of main() started
    before,       \* fileContent when the current run started
    startId,      \* nextId when the current run started
    prevContent,  \* content before the last loop iteration
    lastOp        \* what the last loop iteration did

pvars == <<exists, fileContent, disk, p_pc, content, fi, nextId, out, wasRead,
           wasWritten, runs, before, startId, prevContent, lastOp>>

vars == <<svars, pvars>>

\* Largest number of anchors a page's query returns in the model.
MaxAnchors == 6

\* sources: the three URLs, by their position in the list.
NumSources == 3

\* dungeon_links[:5]
LinkLimit == 5

\* The six name fragments of the allow-list.
NameFragments ==
    {"Ara-Kara", "Dawnbreaker", "Eco-Dome", "Operation", "Priory", "Tazavesh"}

\* Visible texts an anchor can have in the model.
Texts == {"Ara-Kara, City of Echoes", "Priory of the Sacred Flame", "Delves"}

\* The name fragments that occur as substrings of a visible text.
FragmentsIn(t) ==
    CASE t = "Ara-Kara, City of Echoes"   -> {"Ara-Kara"}
      [] t = "Priory of the Sacred Flame" -> {"Priory"}
      [] OTHER                            -> {}

\* any(name in text for name in [...])
Qualifies(t) == \E name \in NameFragments : name \in FragmentsIn(t)

Min(a, b) == IF a < b THEN a ELSE b

EmptyData == [t \in {} |-> [url |-> 0, source |-> 0]]

\* Record, keeping the record a visible text already has.
RecordFirstWins(d, t, h, u) ==
    [x \in DOMAIN d \cup {t} |->
        IF x \in DOMAIN d THEN d[x] ELSE [url |-> h, source |-> u]]

\* dungeons_data[text] = {'url': href, 'source': url}
Record(d, t, h, u) ==
    [x \in DOMAIN d \cup {t} |->
        IF x = t THEN [url |-> h, source |-> u] ELSE d[x]]

\* The lists page.query_selector_all('a[href*="dungeon"]') can return, in
\* query order; the href of the anchor at position k is written k.
AnchorLists ==
    UNION {{[k \in 1..n |-> [text |-> ts[k], href |-> k]] : ts \in [1..n -> Texts]}
              : n \in 0..MaxAnchors}

ScraperInit ==
    /\ s_pc = "launch"
    /\ url = 0
    /\ dungeons_data = EmptyData
    /\ dungeon_links = <<>>
    /\ li = 0
    /\ launched = FALSE
    /\ closed = FALSE
    /\ visited = <<>>
    /\ caught = {}
    /\ marked = {}
    /\ yielded = {}
    /\ returned = FALSE

\* except Exception as e: the handler of the per-URL try block is entered.
Raise ==
    /\ s_pc' = "except"
    /\ caught' = caught \cup {url}

\* browser = await p.chromium.launch(headless=True)
Launch ==
    /\ s_pc = "launch"
    /\ \/ /\ launched' = TRUE
          /\ s_pc' = "new_page"
       \/ /\ s_pc' = "raised"
          /\ UNCHANGED launched
    /\ UNCHANGED <<url, dungeons_data, dungeon_links, li, closed,
                   visited, caught, marked, yielded, returned>>
    /\ UNCHANGED pvars

\* page = await browser.new_page(); outside any try block.
NewPage ==
    /\ s_pc = "new_page"
    /\ s_pc' \in {"headers", "raised"}
    /\ UNCHANGED <<url, dungeons_data, dungeon_links, li, launched, closed,
                   visited, caught, marked, yielded, returned>>
    /\ UNCHANGED pvars

\* await page.set_extra_http_headers(...); dungeons_data = {}
SetHeaders ==
    /\ s_pc = "headers"
    /\ \/ /\ s_pc' = "loop"
          /\ dungeons_data' = EmptyData
       \/ /\ s_pc' = "raised"
          /\ UNCHANGED dungeons_data
    /\ UNCHANGED <<url, dungeon_links, li, launched, closed,
                   visited, caught, marked, yielded, returned>>
    /\ UNCHANGED pvars

\* for url in sources: the next URL, or the end of the list.
LoopNext ==
    /\ s_pc = "loop"
    /\ IF url < NumSources
          THEN /\ url' = url + 1
               /\ s_pc' = "goto"
          ELSE /\ s_pc' = "close"
               /\ UNCHANGED url
    /\ UNCHANGED <<dungeons_data, dungeon_links, li, launched, closed,
                   visited, caught, marked, yielded, returned>>
    /\ UNCHANGED pvars

\* await page.goto(url, wait_until='networkidle')
Goto ==
    /\ s_pc = "goto"
    /\ visited' = Append(visited, url)
    /\ \/ /\ s_pc' = "content"
          /\ UNCHANGED caught
       \/ Raise
    /\ UNCHANGED <<url, dungeons_data, dungeon_links, li, launched, closed,
                   marked, yielded, returned>>
    /\ UNCHANGED pvars

\* content = await page.content(); if 'War Within' in content or 'Season 3' in content
Content ==
    /\ s_pc = "content"
    /\ \/ /\ s_pc' = "query"
          /\ marked' = marked \cup {url}
          /\ UNCHANGED caught
       \/ /\ s_pc' = "loop"
          /\ UNCHANGED <<marked, caught>>
       \/ /\ Raise
          /\ UNCHANGED marked
    /\ UNCHANGED <<url, dungeons_data, dungeon_links, li, launched, closed,
                   visited, yielded, returned>>
    /\ UNCHANGED pvars

\* dungeon_links = await page.query_selector_all('a[href*="dungeon"]')
Query ==
    /\ s_pc = "query"
    /\ \/ /\ \E l \in AnchorLists : dungeon_links' = l
          /\ li' = 1
          /\ s_pc' = "for_link"
          /\ UNCHANGED caught
       \/ /\ Raise
          /\ UNCHANGED <<dungeon_links, li>>
    /\ UNCHANGED <<url, dungeons_data, launched, closed,
                   visited, marked, yielded, returned>>
    /\ UNCHANGED pvars

\* One iteration of: for link in dungeon_links[:5]:
\*     text = await link.inner_text(); href = await link.get_attribute('href')
\*     if any(name in text for name in [...]): dungeons_data[text] = {...}
\* Either read can raise, before anything is recorded.
ReadLink ==
    /\ s_pc = "for_link"
    /\ li <= Min(LinkLimit, Len(dungeon_links))
    /\ \/ /\ LET link == dungeon_links[li]
             IN  IF Qualifies(link.text)
                    THEN /\ dungeons_data' =
                                Record(dungeons_data, link.text, link.href, url)
                         /\ yielded' = yielded \cup {url}
                    ELSE UNCHANGED <<dungeons_data, yielded>>
          /\ li' = li + 1
          /\ UNCHANGED <<s_pc, caught>>
       \/ /\ Raise
          /\ UNCHANGED <<dungeons_data, yielded, li>>
    /\ UNCHANGED <<url, dungeon_links, launched, closed, visited, marked, returned>>
    /\ UNCHANGED pvars

\* The inner loop is exhausted: print(f"Found ..."); break. The anchors are
\* not read again: the list is dropped here.
Found ==
    /\ s_pc = "for_link"
    /\ li > Min(LinkLimit, Len(dungeon_links))
    /\ s_pc' = "close"
    /\ dungeon_links' = <<>>
    /\ li' = 0
    /\ UNCHANGED <<url, dungeons_data, launched, closed,
                   visited, caught, marked, yielded, returned>>
    /\ UNCHANGED pvars

\* print(f"Error with {url}: {e}"); continue. The anchors are not read
\* again: the list is dropped here.
Except ==
    /\ s_pc = "except"
    /\ s_pc' = "loop"
    /\ dungeon_links' = <<>>
    /\ li' = 0
    /\ UNCHANGED <<url, dungeons_data, launched, closed,
                   visited, caught, marked, yielded, returned>>
    /\ UNCHANGED pvars

\* await browser.close()
Close ==
    /\ s_pc = "close"
    /\ closed' = TRUE
    /\ s_pc' = "output"
    /\ UNCHANGED <<url, dungeons_data, dungeon_links, li, launched,
                   visited, caught, marked, yielded, returned>>
    /\ UNCHANGED pvars

\* print(json.dumps(dungeons_data, indent=2)); return dungeons_data
Output ==
    /\ s_pc = "output"
    /\ returned' = TRUE
    /\ s_pc' = "done"
    /\ UNCHANGED <<url, dungeons_data, dungeon_links, li, launched, closed,
                   visited, caught, marked, yielded>>
    /\ UNCHANGED pvars

ScraperNext ==
    \/ Launch
    \/ NewPage
    \/ SetHeaders
    \/ LoopNext
    \/ Goto
    \/ Content
    \/ Query
    \/ ReadLink
    \/ Found
    \/ Except
    \/ Close
    \/ Output

(***************************************************************************)
(*                      ios/scripts/fix-test-target.py                     *)
(*                                                                         *)
(* The manifest text is a sequence of tokens. A token is a maximal piece   *)
(* of text the script's searches treat as a unit: a section marker, the    *)
(* header of the build-phase block, "files = (", a ")", a "}", an entry    *)
(* line, or other text. A token that contains ")" starts with it, so the   *)
(* character classes [^}] and [^)] of the regular expressions accept or    *)
(* reject whole tokens.                                                    *)
(***************************************************************************)

\* The number of runs of main() in a behaviour.
MaxRuns == 2

\* The number of other source files the manifest registers at the start.
MaxOld == 1

\* test_files, by position: DungeonTests.swift, BossEncounterTests.swift,
\* SeasonTests.swift. No name is a substring of another.
NumFiles == 3

FileNames == 1..NumFiles

Tok(k, id, ref, name) == [k |-> k, id |-> id, ref |-> ref, name |-> name]

Plain(k) == Tok(k, 0, 0, 0)

\* The token contains the character "}".
HasRBrace(t) == t.k \in {"RB", "bf", "fr", "bfB", "frB"}

\* The token contains (and then starts with) the character ")".
HasRParen(t) == t.k \in {"RP", "bfB", "frB", "phB"}

\* The duplicate check finding nothing.
NameInNever(name, c) == FALSE

\* file_name in content
NameIn(name, c) == \E i \in 1..Len(c) : c[i].name = name

\* content.find(marker): the position of the first occurrence, 0 when absent.
Find(c, k) ==
    IF \E i \in 1..Len(c) : c[i].k = k
       THEN CHOOSE i \in 1..Len(c) :
                /\ c[i].k = k
                /\ \A j \in 1..(i - 1) : c[j].k # k
       ELSE 0

\* content[:pos] + entry + content[pos:], pos being the position of token at.
InsertBefore(c, at, t) ==
    SubSeq(c, 1, at - 1) \o <<t>> \o SubSeq(c, at, Len(c))

\* re.search(r'/\* Begin X section \*/(.*?)/\* End X section \*/', content, re.DOTALL)
SectionMatch(c, begin, end) ==
    \E i, j \in 1..Len(c) : i < j /\ c[i].k = begin /\ c[j].k = end

\* The pattern matches from the header at p with "files = (" at q:
\* [^}]+ covers the tokens between them, [^)]+ at least the token after q.
PhaseMatchAt(c, p, q) ==
    /\ c[p].k = "HDR"
    /\ q > p + 1
    /\ q < Len(c)
    /\ c[q].k = "FO"
    /\ \A m \in (p + 1)..(q - 1) : ~HasRBrace(c[m])
    /\ ~HasRParen(c[q + 1])

\* sources_match.end() of re.search(sources_phase_pattern, content, re.DOTALL):
\* the position of the last token of the leftmost, greedy match; 0 when the
\* pattern does not match.
PhaseMatchEnd(c) ==
    LET N      == Len(c)
        starts == {p \in 1..N : \E q \in 1..N : PhaseMatchAt(c, p, q)}
    IN  IF starts = {} THEN 0
        ELSE LET p  == CHOOSE x \in starts : \A y \in starts : x <= y
                 qs == {q \in 1..N : PhaseMatchAt(c, p, q)}
                 q  == CHOOSE x \in qs : \A y \in qs : y <= x
                 rs == {r \in (q + 1)..N : \A m \in (q + 1)..r : ~HasRParen(c[m])}
             IN  CHOOSE x \in rs : \A y \in rs : y <= x

\* add_file_to_project inserting the file-reference entry whether or not the
\* section is found: content.find() returns -1 when it is not, and
\* content[:-1] + entry + content[-1:] puts the entry before the last token.
AddFileToProjectUnguardedRef(c, name, file_ref_id, build_file_id) ==
    LET build_file_entry == Tok("bf", build_file_id, file_ref_id, name)
        c1 == IF SectionMatch(c, "BBF", "EBF")
                 THEN InsertBefore(c, Find(c, "EBF"), build_file_entry)
                 ELSE c
        file_ref_entry == Tok("fr", file_ref_id, 0, name)
        c2 == IF SectionMatch(c1, "BFR", "EFR")
                 THEN InsertBefore(c1, Find(c1, "EFR"), file_ref_entry)
                 ELSE InsertBefore(c1, Len(c1), file_ref_entry)
        build_file_ref == Tok("ph", build_file_id, 0, name)
        insert_pos == PhaseMatchEnd(c2)
    IN  IF insert_pos # 0
           THEN InsertBefore(c2, insert_pos + 1, build_file_ref)
           ELSE c2

\* add_file_to_project(content, file_path, file_name), with the two
\* identifiers generate_uuid() returned.
AddFileToProject(c, name, file_ref_id, build_file_id) ==
    LET build_file_entry == Tok("bf", build_file_id, file_ref_id, name)
        c1 == IF SectionMatch(c, "BBF", "EBF")
                 THEN InsertBefore(c, Find(c, "EBF"), build_file_entry)
                 ELSE c
        file_ref_entry == Tok("fr", file_ref_id, 0, name)
        c2 == IF SectionMatch(c1, "BFR", "EFR")
                 THEN InsertBefore(c1, Find(c1, "EFR"), file_ref_entry)
                 ELSE c1
        build_file_ref == Tok("ph", build_file_id, 0, name)
        insert_pos == PhaseMatchEnd(c2)
    IN  IF insert_pos # 0
           THEN InsertBefore(c2, insert_pos + 1, build_file_ref)
           ELSE c2

\* Identifiers the manifest holds at the start: of the other source files
\* and of the listed files that are registered already. generate_uuid()
\* returns 1, 2, 3, ...: a random 96-bit token, taken to differ from every
\* identifier in the manifest and from every token returned before.
OldRef(j) == 100 + 2 * j

OldBuild(j) == 101 + 2 * j

RegRef(n) == 200 + 2 * n

RegBuild(n) == 201 + 2 * n

RECURSIVE CatTo(_, _)
\* f[1] \o ... \o f[n]
CatTo(f, n) == IF n = 0 THEN <<>> ELSE CatTo(f, n - 1) \o f[n]

\* An entry line of kind k; the name of a file with parentheses in it
\* ("Foo (1).swift") puts a ")" inside the line, which makes two tokens.
Entry(k, id, ref, name, paren) ==
    IF paren
       THEN <<Tok(k \o "A", id, ref, name), Tok(k \o "B", id, ref, name)>>
       ELSE <<Tok(k, id, ref, name)>>

\* The entries of kind k of a manifest that registers nOld other files (the
\* first with parentheses in its name when paren) and the listed files in reg.
Entries(k, nOld, paren, reg) ==
    CatTo([i \in 1..(nOld + NumFiles) |->
              IF i <= nOld
                 THEN Entry(k, IF k = "fr" THEN OldRef(i) ELSE OldBuild(i),
                               IF k = "bf" THEN OldRef(i) ELSE 0,
                               0, paren /\ i = 1)
              ELSE IF (i - nOld) \in reg
                 THEN Entry(k, IF k = "fr" THEN RegRef(i - nOld) ELSE RegBuild(i - nOld),
                               IF k = "bf" THEN RegRef(i - nOld) ELSE 0,
                               i - nOld, FALSE)
              ELSE <<>>],
          nOld + NumFiles)

\* The children of the group: one mention per listed file registered already.
Mentions(reg) ==
    CatTo([n \in FileNames |->
              IF n \in reg THEN <<Tok("NM", RegRef(n), 0, n)>> ELSE <<>>],
          NumFiles)

\* A project manifest in the layout the IDE writes: build-file section,
\* file-reference section, group, build-phase block. style is "none" (no
\* block with the fixed identifier), "xcode" (the closing parenthesis of the
\* file list on a line of its own) or "tight" (no text before it).
Manifest(bfSection, frSection, style, nOld, paren, reg) ==
    <<Plain("X")>>
    \o (IF bfSection
           THEN <<Plain("BBF")>> \o Entries("bf", nOld, paren, reg) \o <<Plain("EBF")>>
           ELSE <<>>)
    \o (IF frSection
           THEN <<Plain("BFR")>> \o Entries("fr", nOld, paren, reg) \o <<Plain("EFR")>>
           ELSE <<>>)
    \o Mentions(reg)
    \o (IF style = "none" THEN <<>>
        ELSE <<Plain("HDR"), Plain("X"), Plain("FO")>>
             \o Entries("ph", nOld, paren, reg)
             \o (IF style = "xcode" THEN <<Plain("WS")>> ELSE <<>>)
             \o <<Plain("RP"), Plain("X"), Plain("RB")>>)

Manifests ==
    {Manifest(b, f, st, n, par, reg) :
        b \in BOOLEAN, f \in BOOLEAN, st \in {"none", "xcode", "tight"},
        n \in 0..MaxOld, par \in BOOLEAN, reg \in SUBSET FileNames}

NoOp == [op |-> "none", name |-> 0, ref |-> 0, bf |-> 0]

Line(msg, name) == [msg |-> msg, name |-> name]

PatcherInit ==
    /\ exists \in BOOLEAN
    /\ fileContent \in (IF exists THEN Manifests ELSE {<<>>})
    /\ disk \in SUBSET FileNames
    /\ p_pc = "start"
    /\ content = <<>>
    /\ fi = 1
    /\ nextId = 1
    /\ out = <<>>
    /\ wasRead = FALSE
    /\ wasWritten = FALSE
    /\ runs = 1
    /\ before = fileContent
    /\ startId = 1
    /\ prevContent = <<>>
    /\ lastOp = NoOp

\* if not os.path.exists(PROJECT_FILE): print(...); return
ManifestMissing ==
    /\ p_pc = "start"
    /\ ~exists
    /\ out' = Append(out, Line("error", 0))
    /\ p_pc' = "done"
    /\ UNCHANGED <<exists, fileContent, disk, content, fi, nextId, wasRead,
                   wasWritten, runs, before, startId, prevContent, lastOp>>
    /\ UNCHANGED svars

\* main() reading the manifest without the check that it exists.
ReadProjectUnchecked ==
    /\ p_pc = "start"
    /\ content' = fileContent
    /\ wasRead' = TRUE
    /\ fi' = 1
    /\ p_pc' = "files"
    /\ UNCHANGED <<exists, fileContent, disk, nextId, out, wasWritten, runs,
                   before, startId, prevContent, lastOp>>
    /\ UNCHANGED svars

\* content = read_project_file()
ReadProject ==
    /\ p_pc = "start"
    /\ exists
    /\ content' = fileContent
    /\ wasRead' = TRUE
    /\ fi' = 1
    /\ p_pc' = "files"
    /\ UNCHANGED <<exists, fileContent, disk, nextId, out, wasWritten, runs,
                   before, startId, prevContent, lastOp>>
    /\ UNCHANGED svars

\* os.path.exists(file_path) and file_name not in content:
\* content = add_file_to_project(content, file_path, file_name)
AddFile ==
    /\ p_pc = "files"
    /\ fi <= NumFiles
    /\ fi \in disk
    /\ ~NameIn(fi, content)
    /\ out' = Append(out, Line("adding", fi))
    /\ content' = AddFileToProject(content, fi, nextId, nextId + 1)
    /\ nextId' = nextId + 2
    /\ prevContent' = content
    /\ lastOp' = [op |-> "add", name |-> fi, ref |-> nextId, bf |-> nextId + 1]
    /\ fi' = fi + 1
    /\ UNCHANGED <<exists, fileContent, disk, p_pc, wasRead, wasWritten, runs,
                   before, startId>>
    /\ UNCHANGED svars

\* os.path.exists(file_path) and file_name in content: print(... already in project)
FilePresent ==
    /\ p_pc = "files"
    /\ fi <= NumFiles
    /\ fi \in disk
    /\ NameIn(fi, content)
    /\ out' = Append(out, Line("already", fi))
    /\ prevContent' = content
    /\ lastOp' = [op |-> "present", name |-> fi, ref |-> 0, bf |-> 0]
    /\ fi' = fi + 1
    /\ UNCHANGED <<exists, fileContent, disk, p_pc, content, nextId, wasRead,
                   wasWritten, runs, before, startId>>
    /\ UNCHANGED svars

\* A missing file ending the loop (break after the warning).
FileMissingAborts ==
    /\ p_pc = "files"
    /\ fi <= NumFiles
    /\ fi \notin disk
    /\ out' = Append(out, Line("warning", fi))
    /\ prevContent' = content
    /\ lastOp' = [op |-> "missing", name |-> fi, ref |-> 0, bf |-> 0]
    /\ fi' = NumFiles + 1
    /\ UNCHANGED <<exists, fileContent, disk, p_pc, content, nextId, wasRead,
                   wasWritten, runs, before, startId>>
    /\ UNCHANGED svars

\* not os.path.exists(file_path): print(f"Warning: ... does not exist")
FileMissing ==
    /\ p_pc = "files"
    /\ fi <= NumFiles
    /\ fi \notin disk
    /\ out' = Append(out, Line("warning", fi))
    /\ prevContent' = content
    /\ lastOp' = [op |-> "missing", name |-> fi, ref |-> 0, bf |-> 0]
    /\ fi' = fi + 1
    /\ UNCHANGED <<exists, fileContent, disk, p_pc, content, nextId, wasRead,
                   wasWritten, runs, before, startId>>
    /\ UNCHANGED svars

\* write_project_file(content); print(... updated successfully)
WriteProject ==
    /\ p_pc = "files"
    /\ fi > NumFiles
    /\ fileContent' = content
    /\ exists' = TRUE
    /\ wasWritten' = TRUE
    /\ out' = Append(out, Line("updated", 0))
    /\ p_pc' = "done"
    /\ UNCHANGED <<disk, content, fi, nextId, wasRead, runs, before, startId,
                   prevContent, lastOp>>
    /\ UNCHANGED svars

\* The script is run again on the manifest the last run left.
RunAgain ==
    /\ p_pc = "done"
    /\ runs < MaxRuns
    /\ runs' = runs + 1
    /\ p_pc' = "start"
    /\ content' = <<>>
    /\ fi' = 1
    /\ out' = <<>>
    /\ wasRead' = FALSE
    /\ wasWritten' = FALSE
    /\ before' = fileContent
    /\ startId' = nextId
    /\ prevContent' = <<>>
    /\ lastOp' = NoOp
    /\ UNCHANGED <<exists, fileContent, disk, nextId>>
    /\ UNCHANGED svars

PatcherNext ==
    \/ ManifestMissing
    \/ ReadProject
    \/ AddFile
    \/ FilePresent
    \/ FileMissing
    \/ WriteProject
    \/ RunAgain

\* The state of a script that is not run.
ScraperIdle ==
    /\ s_pc = "idle"
    /\ url = 0
    /\ dungeons_data = EmptyData
    /\ dungeon_links = <<>>
    /\ li = 0
    /\ launched = FALSE
    /\ closed = FALSE
    /\ visited = <<>>
    /\ caught = {}
    /\ marked = {}
    /\ yielded = {}
    /\ returned = FALSE

PatcherIdle ==
    /\ exists = FALSE
    /\ fileContent = <<>>
    /\ disk = {}
    /\ p_pc = "idle"
    /\ content = <<>>
    /\ fi = 1
    /\ nextId = 1
    /\ out = <<>>
    /\ wasRead = FALSE
    /\ wasWritten = FALSE
    /\ runs = 1
    /\ before = <<>>
    /\ startId = 1
    /\ prevContent = <<>>
    /\ lastOp = NoOp

\* python scraper.py
ScraperRun == ScraperInit /\ PatcherIdle

\* python fix-test-target.py, once or several times
PatcherRun == PatcherInit /\ ScraperIdle

SpecScraper == ScraperRun /\ [][ScraperNext]_vars

SpecPatcher == PatcherRun /\ [][PatcherNext]_vars

(***************************************************************************)
(*                         Claims about scraper.py                         *)
(***************************************************************************)
\* The URLs page.goto() was called with.
Visited == {visited[k] : k \in 1..Len(visited)}

\* C1: when the function has returned, the first URL at which an anchor was
\* recorded is the last one navigated to and every returned record was found
\* there; and a URL at which no anchor was recorded did not stop the search:
\* it is the last of the list or the next URL was navigated to.
C1_FirstYieldingUrlWins ==
    s_pc = "done" =>
        /\ \A i \in 1..NumSources :
              (i \in yielded /\ \A j \in 1..(i - 1) : j \notin yielded) =>
                  /\ \A k \in Visited : k <= i
                  /\ \A t \in DOMAIN dungeons_data : dungeons_data[t].source = i
        /\ \A i \in Visited :
              i \notin yielded => (i = NumSources \/ (i + 1) \in Visited)

\* C5: once the browser is launched, the function neither returns nor
\* propagates an exception before browser.close() was executed.
C5_BrowserAlwaysClosed ==
    (launched /\ s_pc \in {"done", "raised"}) => closed

\* C7: nothing is raised to the caller once the loop over the URLs is
\* reached; and when the function has returned and every URL navigated to
\* either raised or recorded no anchor, all three URLs were navigated to, in
\* order, and the returned mapping is empty.
C7_ExhaustionReturnsEmpty ==
    /\ s_pc = "raised" => visited = <<>>
    /\ (s_pc = "done" /\ \A i \in Visited : i \in caught \/ i \notin yielded) =>
           /\ visited = <<1, 2, 3>>
           /\ returned
           /\ dungeons_data = EmptyData

\* The visible text contains at least one of the six name fragments.
ContainsFragment(t) == FragmentsIn(t) \cap NameFragments # {}

\* The records found at the current URL are those of the anchors at the
\* positions in considered: a visible text has a record exactly when an
\* anchor there has that text and the text contains a name fragment, and the
\* record holds the href of the last such anchor.
PageRecordsAre(considered) ==
    \A t \in Texts :
        LET from == {k \in considered : dungeon_links[k].text = t}
            here == t \in DOMAIN dungeons_data /\ dungeons_data[t].source = url
        IN  /\ here <=> (from # {} /\ ContainsFragment(t))
            /\ here =>
                  dungeons_data[t].url =
                      dungeon_links[CHOOSE k \in from : \A m \in from : m <= k].href

\* The processing of a page with a relevance marker is over, by the end of
\* the inner loop or by an exception after the query.
PageOver ==
    \/ s_pc = "for_link" /\ li > Min(LinkLimit, Len(dungeon_links))
    \/ s_pc = "except" /\ li >= 1

\* C9 as stated: when the processing of a page with a relevance marker is
\* over, the records found there are those of the first five anchors of the
\* query whose text contains a name fragment, the last anchor of a text
\* winning.
C9_FirstFiveConsidered ==
    PageOver => PageRecordsAre(1..Min(5, Len(dungeon_links)))

\* C9 amended: the inner loop reads the anchors in query order, never past
\* the fifth; whenever it is at position li, normally or stopped by a read
\* that raised, the records found at the page are those of the anchors
\* before li whose text contains a name fragment, the last anchor of a text
\* winning. When no read raises these are the first five anchors.
C9_RecordsOfAnchorsRead ==
    (s_pc \in {"for_link", "except"} /\ li >= 1) =>
        /\ li - 1 <= Min(5, Len(dungeon_links))
        /\ PageRecordsAre(1..(li - 1))
        /\ (s_pc = "for_link" /\ ~ENABLED ReadLink) =>
               li - 1 = Min(5, Len(dungeon_links))

\* A page with six anchors was processed to the end: the sixth text contains
\* a fragment and has no record, the first and fifth share a text and the
\* record holds the fifth href.
C9_Witness ==
    /\ s_pc = "for_link"
    /\ Len(dungeon_links) = 6
    /\ li = 6
    /\ dungeon_links[6].text = "Priory of the Sacred Flame"
    /\ "Priory of the Sacred Flame" \notin DOMAIN dungeons_data
    /\ dungeon_links[1].text = "Ara-Kara, City of Echoes"
    /\ dungeon_links[5].text = "Ara-Kara, City of Echoes"
    /\ dungeon_links[3].text = "Delves"
    /\ "Ara-Kara, City of Echoes" \in DOMAIN dungeons_data
    /\ dungeons_data["Ara-Kara, City of Echoes"] = [url |-> 5, source |-> url]

(***************************************************************************)
(*                 Claims about ios/scripts/fix-test-target.py             *)
(***************************************************************************)
\* The text c without the entries whose identifier is in ids.
Strip(c, ids) == SelectSeq(c, LAMBDA t : t.id \notin ids)

\* The positions in c of the entries of the kinds in ks with an identifier in ids.
EntriesAt(c, ks, ids) == {i \in 1..Len(c) : c[i].k \in ks /\ c[i].id \in ids}

\* Position i of c lies strictly between the first begin and the first end.
Between(c, i, begin, end) == Find(c, begin) # 0 /\ Find(c, begin) < i /\ i < Find(c, end)

\* Every entry of c that was there at the start is in one piece: the two
\* tokens of an entry with a ")" in its name are adjacent.
EntriesIntact(c) ==
    \A i \in 1..Len(c) :
        c[i].k \in {"bfA", "frA", "phA"} =>
            /\ i < Len(c)
            /\ c[i + 1].id = c[i].id
            /\ c[i + 1].k \in {"bfB", "frB", "phB"}

\* The identifiers generate_uuid() returned in the current run.
Minted == startId..(nextId - 1)

\* C2: a run on a manifest that holds none of the three names and in which
\* the three searches match, with the three source files on disk, writes a
\* manifest with exactly three new build-file entries in the build-file
\* section, three new file-reference entries in the file-reference section
\* and three new entries in the file list of the build-phase block, and every
\* entry that was there is still there, in one piece and in the same order.
C2_ThreeEntriesEach ==
    (/\ p_pc = "done"
     /\ wasWritten
     /\ disk = FileNames
     /\ \A n \in FileNames : ~NameIn(n, before)
     /\ SectionMatch(before, "BBF", "EBF")
     /\ SectionMatch(before, "BFR", "EFR")
     /\ PhaseMatchEnd(before) # 0) =>
        /\ Cardinality(EntriesAt(fileContent, {"bf"}, Minted)) = 3
        /\ \A i \in EntriesAt(fileContent, {"bf"}, Minted) :
              Between(fileContent, i, "BBF", "EBF")
        /\ Cardinality(EntriesAt(fileContent, {"fr"}, Minted)) = 3
        /\ \A i \in EntriesAt(fileContent, {"fr"}, Minted) :
              Between(fileContent, i, "BFR", "EFR")
        /\ Cardinality(EntriesAt(fileContent, {"ph"}, Minted)) = 3
        /\ \A i \in EntriesAt(fileContent, {"ph"}, Minted) :
              Between(fileContent, i, "FO", "RP")
        /\ Strip(fileContent, Minted) = before
        /\ EntriesIntact(fileContent)

\* C3: a run after the first leaves the manifest as it found it, and adds
\* nothing for a name the manifest held when the run started.
C3_SecondRunNoOp ==
    (p_pc = "done" /\ runs >= 2) =>
        /\ fileContent = before
        /\ \A k \in 1..Len(out) :
              out[k].msg = "adding" =>
                  \A i \in 1..Len(before) : before[i].name # out[k].name

\* The second run is over, the first one inserted entries, and the second
\* found a listed file registered.
C3_Witness ==
    /\ p_pc = "done"
    /\ runs = 2
    /\ wasWritten
    /\ startId > 1
    /\ EntriesAt(fileContent, {"bf", "fr", "ph"}, 1..(startId - 1)) # {}
    /\ \E k \in 1..Len(out) : out[k].msg = "already"

RECURSIVE RunOver(_, _, _)
\* The manifest main() computes from c over the list files of files that are
\* all on disk, generate_uuid() returning id, id + 1, ...
RunOver(c, files, id) ==
    IF files = <<>> THEN c
    ELSE IF \E i \in 1..Len(c) : c[i].name = Head(files)
            THEN RunOver(c, Tail(files), id)
            ELSE RunOver(AddFileToProject(c, Head(files), id, id + 1),
                         Tail(files), id + 2)

\* test_files without the files that are not on disk.
ListedOnDisk == SelectSeq([n \in FileNames |-> n], LAMBDA n : n \in disk)

\* C6: a run that reaches its end writes the manifest a run over the list
\* without the missing files would write; for every missing file a warning
\* is printed and the entries that name it are those the manifest had.
C6_MissingFileSkipped ==
    (p_pc = "done" /\ wasWritten) =>
        /\ fileContent = RunOver(before, ListedOnDisk, startId)
        /\ \A n \in FileNames \ disk :
              /\ \E k \in 1..Len(out) : out[k] = Line("warning", n)
              /\ SelectSeq(fileContent, LAMBDA t : t.name = n)
                    = SelectSeq(before, LAMBDA t : t.name = n)

\* A run is over in which the second file was missing and the first and the
\* third were registered.
C6_Witness ==
    /\ p_pc = "done"
    /\ wasWritten
    /\ disk = {1, 3}
    /\ \E i \in EntriesAt(fileContent, {"bf"}, Minted) : fileContent[i].name = 1
    /\ \E i \in EntriesAt(fileContent, {"bf"}, Minted) : fileContent[i].name = 3
    /\ \A i \in 1..Len(fileContent) : fileContent[i].name # 2

\* C8: when the manifest file does not exist, the run prints the error and
\* is over: nothing is read, no identifier is generated, no file is
\* processed, nothing is written and no file is created.
C8_ManifestMissingAborts ==
    (~exists /\ p_pc # "start") =>
        /\ p_pc = "done"
        /\ out = <<Line("error", 0)>>
        /\ ~wasRead
        /\ ~wasWritten
        /\ fileContent = <<>>
        /\ nextId = startId
        /\ lastOp = NoOp

\* A run without a manifest is over, all three source files on disk.
C8_Witness ==
    /\ ~exists
    /\ p_pc = "done"
    /\ disk = FileNames

\* C10: registering a file in a manifest that holds the build-phase block
\* puts one reference to the new build-file entry into the file list of the
\* block, after every entry of the list; and at the end of a run the
\* references of the run are in the order their files were processed.
C10_AppendedToFileList ==
    /\ (lastOp.op = "add" /\ \E i \in 1..Len(prevContent) : prevContent[i].k = "HDR") =>
          /\ Cardinality(EntriesAt(content, {"ph"}, {lastOp.bf})) = 1
          /\ \A i \in EntriesAt(content, {"ph"}, {lastOp.bf}) :
                /\ Between(content, i, "FO", "RP")
                /\ \A j \in (i + 1)..Len(content) :
                      content[j].k \notin {"ph", "phA", "phB"}
    /\ p_pc = "done" =>
          \A i, j \in EntriesAt(fileContent, {"ph"}, Minted) :
              i < j => fileContent[i].id < fileContent[j].id

====
